---- MODULE Spec2Model ----
(***************************************************************************)
(* A model of the GDAX client of src/index.ts: the signer (signMessage),   *)
(* the raw request agent (getRawAgent) and the endpoint facade (getClient).*)
(*                                                                         *)
(* Strings are sequences of tokens: a token is a TLA+ string standing for  *)
(* a run of characters that the code never looks inside ("orders", "/",    *)
(* "?", "status", "=", ...).  Concatenation is \o, so that the program's   *)
(* template strings are modelled by what they build.                       *)
(*                                                                         *)
(* JavaScript values are records with a "tag" field (undefined, null,      *)
(* boolean, object, ...), so that a value of one kind can be compared with *)
(* a value of another.                                                     *)
(***************************************************************************)
EXTENDS Integers, Sequences, FiniteSets, TLC

(***************************************************************************)
(* Bounds of the model.                                                    *)
(***************************************************************************)
\* the number of times the clock (Date.now()) advances
MaxTicks == 1
\* the longest status array given to listOrders and listFunding
MaxStatuses == 2
\* the number of requests that a concurrent caller keeps outstanding
MaxOutstanding == 2

(***************************************************************************)
(* JavaScript values.                                                      *)
(***************************************************************************)
Undefined == [tag |-> "undefined"]
Null == [tag |-> "null"]
JSBool(b) == [tag |-> "boolean", val |-> b]

\* a JavaScript string as a value
JSString(s) == [tag |-> "string", s |-> s]

\* JavaScript's ToBoolean on the values of the model: undefined, null,
\* false and the empty string are falsy; every object (an empty one too) is
\* truthy.
Truthy(v) ==
    CASE v.tag = "undefined" -> FALSE
      [] v.tag = "null" -> FALSE
      [] v.tag = "boolean" -> v.val
      [] v.tag = "string" -> v.s # << >>
      [] OTHER -> TRUE

\* a || b
JSOr(a, b) == IF Truthy(a) THEN a ELSE b

\* A scalar of IPostBody / IQueryParams: string | number | boolean, kept
\* with its type and its text (String(value)).
StrVal(s) == [t |-> "string", s |-> s]
NumVal(s) == [t |-> "number", s |-> s]
BoolVal(s) == [t |-> "boolean", s |-> s]

\* An object literal with ordered own keys: entries is a sequence of
\* [k |-> key, v |-> scalar].
Obj(entries) == [tag |-> "object", entries |-> entries]
EmptyObj == Obj(<< >>)

(***************************************************************************)
(* Strings.                                                                *)
(***************************************************************************)
RECURSIVE Join(_, _)
\* Array.prototype.join: the strings of ss with sep between neighbours
Join(ss, sep) ==
    IF ss = << >> THEN << >>
    ELSE IF Len(ss) = 1 THEN ss[1]
    ELSE ss[1] \o sep \o Join(Tail(ss), sep)

\* String.prototype.toUpperCase on the method names the model passes
ToUpperCase(s) ==
    [i \in 1..Len(s) |->
        CASE s[i] = "get" -> "GET"
          [] s[i] = "post" -> "POST"
          [] s[i] = "delete" -> "DELETE"
          [] s[i] = "Get" -> "GET"
          [] OTHER -> s[i]]

\* encodeURIComponent on one token: the reserved characters of the model
\* are escaped, every other token is left as it is
EncodeToken(tok) ==
    CASE tok = ":" -> "%3A"
      [] tok = " " -> "%20"
      [] tok = "&" -> "%26"
      [] tok = "=" -> "%3D"
      [] tok = "[" -> "%5B"
      [] tok = "]" -> "%5D"
      [] OTHER -> tok

EncodeURIComponent(s) == [i \in 1..Len(s) |-> EncodeToken(s[i])]

\* qs.stringify(obj): '' for undefined, null and the empty object; else
\* key=value pairs, both URI-encoded, joined by '&'.
QsStringify(obj) ==
    IF obj.tag # "object" THEN << >>
    ELSE Join([i \in 1..Len(obj.entries) |->
                 EncodeURIComponent(obj.entries[i].k) \o <<"=">>
                     \o EncodeURIComponent(obj.entries[i].v.s)],
              <<"&">>)

\* JSON.stringify of one scalar: a string is quoted, a number and a
\* boolean are not
JsonScalar(v) ==
    IF v.t = "string" THEN <<"\"">> \o v.s \o <<"\"">> ELSE v.s

\* JSON.stringify(body) of an object of scalars, keys in insertion order
JsonStringify(obj) ==
    <<"{">>
    \o Join([i \in 1..Len(obj.entries) |->
               <<"\"">> \o obj.entries[i].k \o <<"\"", ":">>
                   \o JsonScalar(obj.entries[i].v)],
            <<",">>)
    \o <<"}">>

\* `${n}` of a number
NumberToString(n) == <<ToString(n)>>

(***************************************************************************)
(* The signer.                                                             *)
(***************************************************************************)
\* the alphabet test of Buffer's base64 decoder, on a token
IsBase64Token(tok) == tok \notin {"!", " ", "*"}

\* a decoder that stops at the first character outside the alphabet
Base64DecodeUpToInvalid(s) ==
    LET bad == {i \in 1..Len(s) : ~IsBase64Token(s[i])}
    IN IF bad = {} THEN [bytes |-> s]
       ELSE [bytes |-> SubSeq(s, 1, (CHOOSE i \in bad : \A j \in bad : i <= j) - 1)]

\* new Buffer(privateKey, 'base64'): the characters outside the base64
\* alphabet are skipped, the others decoded; never an error.
Base64Decode(s) == [bytes |-> SelectSeq(s, IsBase64Token)]

\* hmac.update(prehash).digest('base64'): HMAC-SHA256 is modelled as an
\* injective function of the key bytes and the message.
HmacSha256Base64(key, msg) == [alg |-> "hmac-sha256/base64", key |-> key, msg |-> msg]

\* a prehash that takes an empty body for a missing one
PrehashSkippingEmptyBody(timestamp, path, method, body) ==
    IF Truthy(body) /\ body.entries # << >>
    THEN NumberToString(timestamp) \o ToUpperCase(method) \o path \o JsonStringify(body)
    ELSE NumberToString(timestamp) \o ToUpperCase(method) \o path

\* the string that signMessage hashes
Prehash(timestamp, path, method, body) ==
    IF Truthy(body)
    THEN NumberToString(timestamp) \o ToUpperCase(method) \o path \o JsonStringify(body)
    ELSE NumberToString(timestamp) \o ToUpperCase(method) \o path

\* a timestamp cut to whole seconds (the clock counts milliseconds)
TruncatedTimestamp(timestamp) == (timestamp \div 1000) * 1000

\* the timestamp that signMessage returns beside the digest
SignedTimestamp(timestamp) == timestamp

\* signMessage(privateKey, path, method, body) when Date.now() / 1000 is
\* clock (the model counts the clock in milliseconds)
signMessage(privateKey, path, method, body, clock) ==
    [digest |-> HmacSha256Base64(Base64Decode(privateKey),
                                 Prehash(clock, path, method, body)),
     timestamp |-> SignedTimestamp(clock)]

(***************************************************************************)
(* Configuration (src/index.ts, lines 14-49).                              *)
(***************************************************************************)
defaultConfig == [rootUrl |-> <<"https://api.gdax.com">>, timeout |-> 10000]

defaultAgentConfig ==
    [baseURL |-> defaultConfig.rootUrl,
     headers |-> ("Content-Type" :> <<"application/json">>)
                 @@ ("User-Agent" :> <<"GDAX API Client (gdax-cryptoexchange-api node package)">>),
     method |-> <<"GET">>,
     timeout |-> defaultConfig.timeout]

publicAgentConfig == defaultAgentConfig

privateAgentConfig == [defaultAgentConfig EXCEPT !.method = <<"POST">>]

(***************************************************************************)
(* The raw agent.  A primitive is an operator from the agent's state       *)
(* (this.auth), its arguments and the clock to the agent's state after the *)
(* synchronous part of the call and the call's record: the request handed  *)
(* to axios if one was, the promise's state, what axios settled with, and  *)
(* how many times the call called signMessage and axios.                   *)
(***************************************************************************)
NoRequest == [tag |-> "none"]

\* what axios settled a call's request with: nothing yet
NoOutcome == [tag |-> "none"]

UnauthenticatedReason == JSString(<<"api keys are required to access private endpoints">>)

\* isUpgraded(): return this.auth
isUpgraded(a) == a

\* upgrade(newAuth): this.auth = newAuth
upgrade(a, newAuth) == newAuth

\* the headers of a private request
PrivateHeaders(a, signatureData) ==
    privateAgentConfig.headers
    @@ ("CB-ACCESS-KEY" :> a.publicKey)
    @@ ("CB-ACCESS-PASSPHRASE" :> a.passphrase)
    @@ ("CB-ACCESS-SIGN" :> signatureData.digest)
    @@ ("CB-ACCESS-TIMESTAMP" :> signatureData.timestamp)

\* the record of a call that is waiting in `await axios(agentConfig)`
Dispatched(a, op, endpoint, arg, agentConfig, nSign) ==
    [via |-> "rawAgent", args |-> << >>, authAtCall |-> a,
     op |-> op, endpoint |-> endpoint, arg |-> arg,
     state |-> "pending", result |-> Undefined,
     req |-> agentConfig, outcome |-> NoOutcome,
     nSign |-> nSign, nTransport |-> 1]

\* a call without credentials that goes on to axios unsigned
DispatchedUnsigned(a, op, endpoint, arg) ==
    Dispatched(a, op, endpoint, arg,
               [baseURL |-> publicAgentConfig.baseURL,
                timeout |-> publicAgentConfig.timeout,
                headers |-> publicAgentConfig.headers,
                method |-> publicAgentConfig.method,
                url |-> <<"/">> \o endpoint, data |-> Undefined], 0)

\* the record of a call that rejected before it reached signMessage or axios
RejectedEarly(a, op, endpoint, arg) ==
    [via |-> "rawAgent", args |-> << >>, authAtCall |-> a,
     op |-> op, endpoint |-> endpoint, arg |-> arg,
     state |-> "rejected", result |-> UnauthenticatedReason,
     req |-> NoRequest, outcome |-> NoOutcome, nSign |-> 0, nTransport |-> 0]

\* a uri that gets its "?" only with a query string
QueryUriWithoutBareMark(endpoint, queryParams) ==
    IF QsStringify(queryParams) = << >>
    THEN <<"/">> \o endpoint
    ELSE <<"/">> \o endpoint \o <<"?">> \o QsStringify(queryParams)

\* the uri of the three primitives that take query parameters
QueryUri(endpoint, queryParams) ==
    <<"/">> \o endpoint \o <<"?">> \o QsStringify(queryParams)

\* the uri of postToPrivateEndpoint
PostUri(endpoint) == <<"/">> \o endpoint

\* what each private primitive asks signMessage to sign
DeleteSignature(a, uri, queryParams, clock) ==
    signMessage(a.privateKey, uri, <<"DELETE">>, Undefined, clock)

\* a GET signature that takes the query parameters for a body
GetSignatureWithBody(a, uri, queryParams, clock) ==
    signMessage(a.privateKey, uri, <<"GET">>, queryParams, clock)

\* a GET signature over the path alone, cut before the query string
GetSignatureOfPathOnly(a, uri, queryParams, clock) ==
    LET marks == {i \in 1..Len(uri) : uri[i] = "?"}
        path == IF marks = {} THEN uri
                ELSE SubSeq(uri, 1, (CHOOSE i \in marks : \A j \in marks : i <= j) - 1)
    IN signMessage(a.privateKey, path, <<"GET">>, Undefined, clock)

GetSignature(a, uri, queryParams, clock) ==
    signMessage(a.privateKey, uri, <<"GET">>, Undefined, clock)

PostSignature(a, uri, data, clock) ==
    signMessage(a.privateKey, uri, <<"POST">>, data, clock)

deleteFromPrivateEndpoint(a, endpoint, queryParams, clock) ==
    IF ~Truthy(isUpgraded(a))
    THEN [auth |-> a,
          call |-> RejectedEarly(a, "deleteFromPrivateEndpoint", endpoint, queryParams)]
    ELSE LET uri == QueryUri(endpoint, queryParams)
             signatureData == DeleteSignature(a, uri, queryParams, clock)
             headers == PrivateHeaders(a, signatureData)
             agentConfig == [baseURL |-> privateAgentConfig.baseURL,
                             timeout |-> privateAgentConfig.timeout,
                             headers |-> headers, method |-> <<"DELETE">>,
                             url |-> uri, data |-> Undefined]
         IN [auth |-> a,
             call |-> Dispatched(a, "deleteFromPrivateEndpoint", endpoint,
                                 queryParams, agentConfig, 1)]

getFromPrivateEndpoint(a, endpoint, queryParams, clock) ==
    IF ~Truthy(isUpgraded(a))
    THEN [auth |-> a,
          call |-> RejectedEarly(a, "getFromPrivateEndpoint", endpoint, queryParams)]
    ELSE LET uri == QueryUri(endpoint, queryParams)
             signatureData == GetSignature(a, uri, queryParams, clock)
             headers == PrivateHeaders(a, signatureData)
             agentConfig == [baseURL |-> privateAgentConfig.baseURL,
                             timeout |-> privateAgentConfig.timeout,
                             headers |-> headers, method |-> <<"GET">>,
                             url |-> uri, data |-> Undefined]
         IN [auth |-> a,
             call |-> Dispatched(a, "getFromPrivateEndpoint", endpoint,
                                 queryParams, agentConfig, 1)]

\* a public request that carries the API key of an upgraded agent
getPublicEndpointWithKey(a, endpoint, queryParams, clock) ==
    LET uri == QueryUri(endpoint, queryParams)
        headers == IF a.tag = "object"
                   THEN publicAgentConfig.headers @@ ("CB-ACCESS-KEY" :> a.publicKey)
                   ELSE publicAgentConfig.headers
        agentConfig == [baseURL |-> publicAgentConfig.baseURL,
                        timeout |-> publicAgentConfig.timeout,
                        headers |-> headers,
                        method |-> publicAgentConfig.method,
                        url |-> uri, data |-> Undefined]
    IN [auth |-> a,
        call |-> Dispatched(a, "getPublicEndpoint", endpoint, queryParams, agentConfig, 0)]

getPublicEndpoint(a, endpoint, queryParams, clock) ==
    LET uri == QueryUri(endpoint, queryParams)
        agentConfig == [baseURL |-> publicAgentConfig.baseURL,
                        timeout |-> publicAgentConfig.timeout,
                        headers |-> publicAgentConfig.headers,
                        method |-> publicAgentConfig.method,
                        url |-> uri, data |-> Undefined]
    IN [auth |-> a,
        call |-> Dispatched(a, "getPublicEndpoint", endpoint, queryParams, agentConfig, 0)]

postToPrivateEndpoint(a, endpoint, data, clock) ==
    IF ~Truthy(isUpgraded(a))
    THEN [auth |-> a,
          call |-> RejectedEarly(a, "postToPrivateEndpoint", endpoint, data)]
    ELSE LET uri == PostUri(endpoint)
             signatureData == PostSignature(a, uri, data, clock)
             headers == PrivateHeaders(a, signatureData)
             agentConfig == [baseURL |-> privateAgentConfig.baseURL,
                             timeout |-> privateAgentConfig.timeout,
                             headers |-> headers, method |-> privateAgentConfig.method,
                             url |-> uri, data |-> data]
         IN [auth |-> a,
             call |-> Dispatched(a, "postToPrivateEndpoint", endpoint, data, agentConfig, 1)]

(***************************************************************************)
(* The end of a call: axios settles and the primitive resumes.             *)
(***************************************************************************)
TypeError == [tag |-> "object", name |-> "TypeError"]

\* obj.error
GetError(data) == IF data.tag = "object" THEN data.error ELSE Undefined

\* err.response.data.error || err.response.data || err.response || err,
\* where reading a property of undefined or null throws a TypeError (the
\* async function then rejects with it)
RejectionReason(err) ==
    IF ~(err.response.tag = "object") THEN TypeError
    ELSE IF err.response.data.tag \in {"undefined", "null"} THEN TypeError
    ELSE JSOr(JSOr(JSOr(GetError(err.response.data), err.response.data),
                   err.response), err)

\* a primitive that gives a failed request a second attempt
SettleRetryingOnce(call, outcome) ==
    IF outcome.ok
    THEN [call EXCEPT !.state = "resolved", !.result = outcome.value,
                      !.outcome = outcome]
    ELSE IF call.nTransport < 2
    THEN [call EXCEPT !.nTransport = @ + 1]
    ELSE [call EXCEPT !.state = "rejected", !.result = RejectionReason(outcome.value),
                      !.outcome = outcome]

\* the call's record after axios settled with outcome
Settle(call, outcome) ==
    IF outcome.ok
    THEN [call EXCEPT !.state = "resolved", !.result = outcome.value,
                      !.outcome = outcome]
    ELSE [call EXCEPT !.state = "rejected", !.result = RejectionReason(outcome.value),
                      !.outcome = outcome]

(***************************************************************************)
(* The client (getClient): one method per endpoint, each over rawAgent.    *)
(* A method is an operator from the agent's state, its arguments and the   *)
(* clock to what the primitive it calls returns, with the method's name in *)
(* the record's `via`.                                                     *)
(***************************************************************************)
\* `${v}` of a string argument (or of a missing one)
Template(v) == IF v.tag = "string" THEN v.s ELSE <<v.tag>>

\* an array of strings
Array(items) == [tag |-> "array", items |-> items]

\* a method that loses the credentials as it throws
ThrewAndForgot(a, error) ==
    [auth |-> Undefined,
     call |-> [via |-> "rawAgent", args |-> << >>, authAtCall |-> a,
               op |-> "none", endpoint |-> << >>, arg |-> Undefined,
               state |-> "rejected", result |-> error,
               req |-> NoRequest, outcome |-> NoOutcome,
               nSign |-> 0, nTransport |-> 0]]

\* the record of a method that threw before it called any primitive (its
\* async function rejects with what was thrown)
Threw(a, error) ==
    [auth |-> a,
     call |-> [via |-> "rawAgent", args |-> << >>, authAtCall |-> a,
               op |-> "none", endpoint |-> << >>, arg |-> Undefined,
               state |-> "rejected", result |-> error,
               req |-> NoRequest, outcome |-> NoOutcome,
               nSign |-> 0, nTransport |-> 0]]

\* the keys of an object's entries
Keys(entries) == {entries[i].k : i \in 1..Len(entries)}

\* the entry of key k
EntryOf(entries, k) == entries[CHOOSE i \in 1..Len(entries) : entries[i].k = k]

\* the own entries that a spread copies: none for undefined and null
SpreadEntries(obj) == IF obj.tag = "object" THEN obj.entries ELSE << >>

\* { ...x, ...y }
ObjSpread(x, y) ==
    LET ex == SpreadEntries(x)
        ey == SpreadEntries(y)
    IN Obj([i \in 1..Len(ex) |->
              IF ex[i].k \in Keys(ey) THEN EntryOf(ey, ex[i].k) ELSE ex[i]]
           \o SelectSeq(ey, LAMBDA e : e.k \notin Keys(ex)))

\* the bracketed key that a generic serializer gives an array
BracketedStatusPair(status) == <<"status", "[", "]", "=">> \o status

\* `status=${status}`
StatusPair(status) == <<"status", "=">> \o status

\* the statuses array of listOrders and listFunding
Statuses(params) ==
    IF Truthy(params.status) /\ params.status.tag = "array"
    THEN [i \in 1..Len(params.status.items) |-> StatusPair(params.status.items[i])]
    ELSE << >>

getProducts(a, clock) == getPublicEndpoint(a, <<"products">>, Undefined, clock)

getProductOrderBook(a, productId, bookParams, clock) ==
    LET params == JSOr(bookParams, Obj(<<[k |-> <<"level">>, v |-> NumVal(<<"1">>)]>>))
    IN getPublicEndpoint(a, <<"products", "/">> \o Template(productId) \o <<"/", "book">>,
                         params, clock)

getProductTicker(a, productId, clock) ==
    getPublicEndpoint(a, <<"products", "/">> \o Template(productId) \o <<"/", "ticker">>,
                      Undefined, clock)

getTrades(a, productId, paginationParams, clock) ==
    getPublicEndpoint(a, <<"products", "/">> \o Template(productId) \o <<"/", "trades">>,
                      paginationParams, clock)

getHistoricRates(a, productId, params, clock) ==
    getPublicEndpoint(a, <<"products", "/">> \o Template(productId) \o <<"/", "candles">>,
                      params, clock)

get24HrStats(a, productId, clock) ==
    getPublicEndpoint(a, <<"products", "/">> \o Template(productId) \o <<"/", "stats">>,
                      Undefined, clock)

getCurrencies(a, clock) == getPublicEndpoint(a, <<"currencies">>, Undefined, clock)

getServerTime(a, clock) == getPublicEndpoint(a, <<"time">>, Undefined, clock)

listAccounts(a, clock) == getFromPrivateEndpoint(a, <<"accounts">>, Undefined, clock)

getAccount(a, accountId, clock) ==
    getFromPrivateEndpoint(a, <<"accounts", "/">> \o Template(accountId), Undefined, clock)

getAccountHistory(a, accountId, paginationParams, clock) ==
    getFromPrivateEndpoint(a, <<"accounts", "/">> \o Template(accountId) \o <<"/", "ledger">>,
                           paginationParams, clock)

getHolds(a, accountId, paginationParams, clock) ==
    getFromPrivateEndpoint(a, <<"accounts", "/">> \o Template(accountId) \o <<"/", "holds">>,
                           paginationParams, clock)

placeNewOrder(a, params, clock) == postToPrivateEndpoint(a, <<"orders">>, params, clock)

cancelOrder(a, orderId, clock) ==
    deleteFromPrivateEndpoint(a, <<"orders", "/">> \o Template(orderId), Undefined, clock)

cancelAll(a, params, clock) == deleteFromPrivateEndpoint(a, <<"orders">>, params, clock)

listOrders(a, params, paginationParams, clock) ==
    IF params.tag \in {"undefined", "null"}
    THEN Threw(a, TypeError)
    ELSE LET statuses == Statuses(params)
             orderParams ==
                 IF Truthy(params.product_id)
                 THEN Join(statuses, <<"&">>) \o <<"&", "product_id", "=">>
                          \o Template(params.product_id)
                 ELSE Join(statuses, <<"&">>)
             pageParams == QsStringify(paginationParams)
             queryString == Join(<<orderParams, pageParams>>, <<"&">>)
         IN getFromPrivateEndpoint(a, <<"orders", "?">> \o queryString, Undefined, clock)

getOrder(a, orderId, clock) ==
    getFromPrivateEndpoint(a, <<"orders", "/">> \o Template(orderId), Undefined, clock)

listFills(a, listFillsParams, paginationParams, clock) ==
    LET params == ObjSpread(listFillsParams, paginationParams)
    IN getFromPrivateEndpoint(a, <<"fills">>, params, clock)

listFunding(a, params, paginationParams, clock) ==
    IF params.tag \in {"undefined", "null"}
    THEN Threw(a, TypeError)
    ELSE LET statuses == Statuses(params)
             fundingParams == Join(statuses, <<"&">>)
             pageParams == QsStringify(paginationParams)
             queryString == Join(<<fundingParams, pageParams>>, <<"&">>)
         IN getFromPrivateEndpoint(a, <<"funding", "?">> \o queryString, Undefined, clock)

repay(a, params, clock) ==
    postToPrivateEndpoint(a, <<"funding", "/", "repay">>, params, clock)

transferMarginFunds(a, params, clock) ==
    postToPrivateEndpoint(a, <<"profiles", "/", "margin-transfer">>, params, clock)

getPosition(a, clock) == getFromPrivateEndpoint(a, <<"position">>, Undefined, clock)

closePosition(a, closePositionParams, clock) ==
    LET params == JSOr(closePositionParams,
                       Obj(<<[k |-> <<"repay_only">>, v |-> BoolVal(<<"false">>)]>>))
    IN postToPrivateEndpoint(a, <<"position", "/", "close">>, params, clock)

depositFromPaymentMethod(a, params, clock) ==
    postToPrivateEndpoint(a, <<"deposits", "/", "payment-method">>, params, clock)

depositFromCoinbaseAccount(a, params, clock) ==
    postToPrivateEndpoint(a, <<"deposits", "/", "coinbase-account">>, params, clock)

withdrawToPaymentMethod(a, params, clock) ==
    postToPrivateEndpoint(a, <<"withdrawals", "/", "coinbase-account">>, params, clock)

withdrawToCoinbaseAccount(a, params, clock) ==
    postToPrivateEndpoint(a, <<"withdrawals", "/", "coinbase-account">>, params, clock)

withdrawToCryptoAddress(a, params, clock) ==
    postToPrivateEndpoint(a, <<"withdrawals", "/", "crypto">>, params, clock)

listPaymentMethods(a, clock) ==
    getFromPrivateEndpoint(a, <<"payment-methods">>, Undefined, clock)

listCoinbaseAccounts(a, clock) ==
    getFromPrivateEndpoint(a, <<"coinbase-accounts">>, Undefined, clock)

createReport(a, params, clock) == postToPrivateEndpoint(a, <<"reports">>, params, clock)

getReportStatus(a, reportId, clock) ==
    getFromPrivateEndpoint(a, <<"reports", "/">> \o Template(reportId), Undefined, clock)

getTrailingVolume(a, clock) ==
    getFromPrivateEndpoint(a, <<"users", "/", "self", "/", "trailing-volume">>,
                           Undefined, clock)

\* the methods of IGdaxClient that call an endpoint
ClientMethods ==
    {"getProducts", "getProductOrderBook", "getProductTicker", "getTrades",
     "getHistoricRates", "get24HrStats", "getCurrencies", "getServerTime",
     "listAccounts", "getAccount", "getAccountHistory", "getHolds",
     "placeNewOrder", "cancelOrder", "cancelAll", "listOrders", "getOrder",
     "listFills", "listFunding", "repay", "transferMarginFunds", "getPosition",
     "closePosition", "depositFromPaymentMethod", "depositFromCoinbaseAccount",
     "withdrawToPaymentMethod", "withdrawToCoinbaseAccount",
     "withdrawToCryptoAddress", "listPaymentMethods", "listCoinbaseAccounts",
     "createReport", "getReportStatus", "getTrailingVolume"}

\* client[m](p1, p2): the method named m, called with its (at most two)
\* arguments
Invoke(m, a, p1, p2, clock) ==
    CASE m = "getProducts" -> getProducts(a, clock)
      [] m = "getProductOrderBook" -> getProductOrderBook(a, p1, p2, clock)
      [] m = "getProductTicker" -> getProductTicker(a, p1, clock)
      [] m = "getTrades" -> getTrades(a, p1, p2, clock)
      [] m = "getHistoricRates" -> getHistoricRates(a, p1, p2, clock)
      [] m = "get24HrStats" -> get24HrStats(a, p1, clock)
      [] m = "getCurrencies" -> getCurrencies(a, clock)
      [] m = "getServerTime" -> getServerTime(a, clock)
      [] m = "listAccounts" -> listAccounts(a, clock)
      [] m = "getAccount" -> getAccount(a, p1, clock)
      [] m = "getAccountHistory" -> getAccountHistory(a, p1, p2, clock)
      [] m = "getHolds" -> getHolds(a, p1, p2, clock)
      [] m = "placeNewOrder" -> placeNewOrder(a, p1, clock)
      [] m = "cancelOrder" -> cancelOrder(a, p1, clock)
      [] m = "cancelAll" -> cancelAll(a, p1, clock)
      [] m = "listOrders" -> listOrders(a, p1, p2, clock)
      [] m = "getOrder" -> getOrder(a, p1, clock)
      [] m = "listFills" -> listFills(a, p1, p2, clock)
      [] m = "listFunding" -> listFunding(a, p1, p2, clock)
      [] m = "repay" -> repay(a, p1, clock)
      [] m = "transferMarginFunds" -> transferMarginFunds(a, p1, clock)
      [] m = "getPosition" -> getPosition(a, clock)
      [] m = "closePosition" -> closePosition(a, p1, clock)
      [] m = "depositFromPaymentMethod" -> depositFromPaymentMethod(a, p1, clock)
      [] m = "depositFromCoinbaseAccount" -> depositFromCoinbaseAccount(a, p1, clock)
      [] m = "withdrawToPaymentMethod" -> withdrawToPaymentMethod(a, p1, clock)
      [] m = "withdrawToCoinbaseAccount" -> withdrawToCoinbaseAccount(a, p1, clock)
      [] m = "withdrawToCryptoAddress" -> withdrawToCryptoAddress(a, p1, clock)
      [] m = "listPaymentMethods" -> listPaymentMethods(a, clock)
      [] m = "listCoinbaseAccounts" -> listCoinbaseAccounts(a, clock)
      [] m = "createReport" -> createReport(a, p1, clock)
      [] m = "getReportStatus" -> getReportStatus(a, p1, clock)
      [] m = "getTrailingVolume" -> getTrailingVolume(a, clock)

\* the method's result, with the method's name in the call's record
ClientCall(m, a, p1, p2, clock) ==
    LET r == Invoke(m, a, p1, p2, clock)
    IN [auth |-> r.auth, call |-> [r.call EXCEPT !.via = m, !.args = <<p1, p2>>]]

\* client.isUpgraded(): return this.rawAgent.isUpgraded()
clientIsUpgraded(a) == isUpgraded(a)

\* client.upgrade(newAuth): this.rawAgent.upgrade(newAuth)
clientUpgrade(a, newAuth) == upgrade(a, newAuth)

(***************************************************************************)
(* The state of one client and of the calls made on it.                    *)
(***************************************************************************)
VARIABLES
    auth,   \* rawAgent.auth: the credentials, or undefined / null
    now,    \* Date.now(), in milliseconds
    calls,  \* the calls of endpoints that the caller holds, oldest first
    ret     \* the last synchronous call (isUpgraded, signMessage) and its value

vars == <<auth, now, calls, ret>>

\* two sets of API keys that differ in every field; the secret of the
\* second has a character outside the base64 alphabet
CredA == [tag |-> "object", publicKey |-> <<"keyA">>,
          privateKey |-> <<"c2VjcmV0QQ==">>, passphrase |-> <<"passA">>]
CredB == [tag |-> "object", publicKey |-> <<"keyB">>,
          privateKey |-> <<"c2Vj", "!", "cmV0Qg==">>, passphrase |-> <<"passB">>]
Credentials == {CredA, CredB}

\* what the type IApiAuth admits as upgrade's argument (the project is
\* compiled without strictNullChecks: see isUpgraded's `return this.auth`)
UpgradeArgs == Credentials \cup {Undefined, Null}

\* getClient() and getClient(auth)
ConstructorArgs == Credentials \cup {Undefined}

Endpoints == {<<"accounts">>, <<"orders", "/", "id1">>}

Limit2 == Obj(<<[k |-> <<"limit">>, v |-> NumVal(<<"2">>)]>>)

QueryParamsArgs ==
    {Undefined, EmptyObj, Limit2,
     Obj(<<[k |-> <<"start">>, v |-> StrVal(<<"10", ":", "00">>)],
           [k |-> <<"granularity">>, v |-> NumVal(<<"60">>)]>>)}

OrderBody ==
    Obj(<<[k |-> <<"side">>, v |-> StrVal(<<"buy">>)],
          [k |-> <<"product_id">>, v |-> StrVal(<<"BTC-USD">>)],
          [k |-> <<"price">>, v |-> NumVal(<<"100">>)],
          [k |-> <<"size">>, v |-> NumVal(<<"1">>)]>>)

PostBodyArgs == {Undefined, EmptyObj, OrderBody}

\* the arguments of direct calls of signMessage
SignKeys == {CredA.privateKey, <<"c2Vj", "!", "cmV0">>}
SignPaths == {<<"/", "orders">>}
SignMethods == {<<"get">>, <<"POST">>, <<"delete">>}

\* status arrays of at most MaxStatuses elements
StatusNames == {<<"open">>, <<"pending">>}
StatusArrays ==
    {Array(items) : items \in UNION {[1..n -> StatusNames] : n \in 0..MaxStatuses}}

Id1 == JSString(<<"id1">>)

\* the argument lists <<p1, p2>> that the model gives to method m
ClientArgs(m) ==
    CASE m \in {"getProducts", "getCurrencies", "getServerTime", "listAccounts",
                "getPosition", "listPaymentMethods", "listCoinbaseAccounts",
                "getTrailingVolume"} -> {<<Undefined, Undefined>>}
      [] m \in {"getProductTicker", "get24HrStats", "getAccount", "cancelOrder",
                "getOrder", "getReportStatus"} -> {<<Id1, Undefined>>}
      [] m \in {"getTrades", "getAccountHistory", "getHolds"} ->
            {<<Id1, p>> : p \in {Undefined, Limit2}}
      [] m = "getProductOrderBook" ->
            {<<Id1, p>> : p \in {Undefined,
                                 Obj(<<[k |-> <<"level">>, v |-> NumVal(<<"2">>)]>>)}}
      [] m = "getHistoricRates" ->
            {<<Id1, Obj(<<[k |-> <<"start">>, v |-> StrVal(<<"10", ":", "00">>)],
                          [k |-> <<"granularity">>, v |-> NumVal(<<"60">>)]>>)>>}
      [] m \in {"placeNewOrder", "repay", "transferMarginFunds",
                "depositFromPaymentMethod", "depositFromCoinbaseAccount",
                "withdrawToPaymentMethod", "withdrawToCoinbaseAccount",
                "withdrawToCryptoAddress", "createReport"} ->
            {<<OrderBody, Undefined>>}
      [] m = "closePosition" ->
            {<<p, Undefined>> :
                p \in {Undefined,
                       Obj(<<[k |-> <<"repay_only">>, v |-> BoolVal(<<"true">>)]>>)}}
      [] m = "cancelAll" ->
            {<<p, Undefined>> :
                p \in {Undefined,
                       Obj(<<[k |-> <<"product_id">>, v |-> StrVal(<<"BTC-USD">>)]>>)}}
      [] m = "listFills" ->
            {<<p, q>> :
                p \in {Undefined,
                       Obj(<<[k |-> <<"order_id">>, v |-> StrVal(<<"id1">>)]>>)},
                q \in {Undefined, Limit2}}
      [] m = "listOrders" ->
            {<<p, q>> :
                p \in {Undefined}
                      \cup {[tag |-> "object", status |-> st, product_id |-> pr] :
                               st \in {Undefined} \cup StatusArrays,
                               pr \in {Undefined, JSString(<<"BTC-USD">>)}},
                q \in {Undefined, Limit2}}
      [] m = "listFunding" ->
            {<<p, q>> :
                p \in {Undefined}
                      \cup {[tag |-> "object", status |-> st] :
                               st \in {Undefined} \cup StatusArrays},
                q \in {Undefined, Limit2}}

\* what axios settles with: a response, or an error with or without one
OkResponse == [tag |-> "object", status |-> 200, data |-> JSString(<<"body">>)]
ErrorOf(response) == [tag |-> "object", name |-> "Error", response |-> response]
ErrorResponse(data) == [tag |-> "object", status |-> 400, data |-> data]

Outcomes ==
    {[ok |-> TRUE, value |-> OkResponse]}
    \cup {[ok |-> FALSE, value |-> ErrorOf(Undefined)]}
    \cup {[ok |-> FALSE, value |-> ErrorOf(ErrorResponse(d))] :
            d \in {Undefined, JSString(<< >>),
                   [tag |-> "object", error |-> Undefined],
                   [tag |-> "object", error |-> JSString(<<"Unauthorized">>)]}}

NoReturn == [op |-> "none", args |-> << >>, value |-> Undefined]

Init ==
    /\ auth \in ConstructorArgs
    /\ now = 1999
    /\ calls = << >>
    /\ ret = NoReturn

\* time passes
Tick ==
    /\ now < 1999 + MaxTicks
    /\ now' = now + 1
    /\ UNCHANGED <<auth, calls, ret>>

Settled(call) == call.state # "pending"

\* an upgrade that reaches into the requests in flight, as it would if
\* their headers referred to the agent's credentials instead of holding
\* copies of them
UpgradeReachingInFlight(newAuth) ==
    /\ auth' = upgrade(auth, newAuth)
    /\ calls' = [i \in 1..Len(calls) |->
                    IF /\ calls[i].state = "pending"
                       /\ calls[i].op # "getPublicEndpoint"
                       /\ newAuth.tag = "object"
                    THEN [calls[i] EXCEPT
                             !.req.headers["CB-ACCESS-KEY"] = newAuth.publicKey]
                    ELSE calls[i]]
    /\ UNCHANGED <<now, ret>>

\* rawAgent.upgrade(newAuth)
Upgrade(newAuth) ==
    /\ auth' = upgrade(auth, newAuth)
    /\ UNCHANGED <<now, calls, ret>>

\* client.upgrade(newAuth)
ClientUpgrade(newAuth) ==
    /\ auth' = clientUpgrade(auth, newAuth)
    /\ UNCHANGED <<now, calls, ret>>

\* The synchronous part of a call of an endpoint.  r is what the primitive
\* returns: the agent's state and the call's record.  The caller holds the
\* k most recent calls, and lets go of the oldest once it has settled.
Start(k, r) ==
    /\ IF Len(calls) < k THEN TRUE ELSE Settled(Head(calls))
    /\ auth' = r.auth
    /\ calls' = Append(IF Len(calls) < k THEN calls ELSE Tail(calls), r.call)
    /\ ret' = NoReturn
    /\ now' = now

GetPublic(k, endpoint, queryParams) ==
    Start(k, getPublicEndpoint(auth, endpoint, queryParams, now))

GetPrivate(k, endpoint, queryParams) ==
    Start(k, getFromPrivateEndpoint(auth, endpoint, queryParams, now))

PostPrivate(k, endpoint, data) ==
    Start(k, postToPrivateEndpoint(auth, endpoint, data, now))

DeletePrivate(k, endpoint, queryParams) ==
    Start(k, deleteFromPrivateEndpoint(auth, endpoint, queryParams, now))

\* client[m](p1, p2)
Client(k, m, p1, p2) == Start(k, ClientCall(m, auth, p1, p2, now))

\* axios settles the request of call i and the primitive resumes
Respond(i, outcome) ==
    /\ i \in 1..Len(calls)
    /\ calls[i].state = "pending"
    /\ calls' = [calls EXCEPT ![i] = Settle(calls[i], outcome)]
    /\ UNCHANGED <<auth, now, ret>>

\* A synchronous call that returns value: the caller, which awaits one
\* thing at a time, makes it when nothing is pending and keeps its value.
Return(op, args, value) ==
    /\ \A i \in 1..Len(calls) : Settled(calls[i])
    /\ calls' = << >>
    /\ ret' = [op |-> op, args |-> args, value |-> value]
    /\ UNCHANGED <<auth, now>>

\* rawAgent.isUpgraded()
IsUpgraded == Return("isUpgraded", << >>, isUpgraded(auth))

\* client.isUpgraded()
ClientIsUpgraded == Return("client.isUpgraded", << >>, clientIsUpgraded(auth))

\* rawAgent.signMessage(privateKey, path, method, body)
SignMessage(privateKey, path, method, body) ==
    Return("signMessage", <<privateKey, path, method, body>>,
           signMessage(privateKey, path, method, body, now))

\* a caller that awaits each call before it makes the next
Next ==
    \/ Tick
    \/ \E x \in UpgradeArgs : Upgrade(x)
    \/ \E x \in UpgradeArgs : ClientUpgrade(x)
    \/ IsUpgraded
    \/ ClientIsUpgraded
    \/ \E key \in SignKeys, path \in SignPaths, m \in SignMethods, b \in PostBodyArgs :
          SignMessage(key, path, m, b)
    \/ \E e \in Endpoints, q \in QueryParamsArgs : GetPublic(1, e, q)
    \/ \E e \in Endpoints, q \in QueryParamsArgs : GetPrivate(1, e, q)
    \/ \E e \in Endpoints, d \in PostBodyArgs : PostPrivate(1, e, d)
    \/ \E e \in Endpoints, q \in QueryParamsArgs : DeletePrivate(1, e, q)
    \/ \E m \in ClientMethods : \E p \in ClientArgs(m) : Client(1, m, p[1], p[2])
    \/ \E i \in 1..Len(calls), o \in Outcomes : Respond(i, o)

Spec == Init /\ [][Next]_vars

\* the outcomes of the requests of the concurrent caller
ConcurrentOutcomes ==
    {[ok |-> TRUE, value |-> OkResponse],
     [ok |-> FALSE,
      value |-> ErrorOf(ErrorResponse([tag |-> "object",
                                       error |-> JSString(<<"Unauthorized">>)]))]}

\* A caller that does not await: it keeps up to MaxOutstanding private
\* requests outstanding on the one agent, upgrades the agent at any moment,
\* and the requests settle in any order.
ConcurrentNext ==
    \/ \E x \in UpgradeArgs : Upgrade(x)
    \/ GetPrivate(MaxOutstanding, <<"accounts">>, Limit2)
    \/ PostPrivate(MaxOutstanding, <<"orders">>, OrderBody)
    \/ DeletePrivate(MaxOutstanding, <<"orders", "/", "id1">>, Undefined)
    \/ \E i \in 1..Len(calls), o \in ConcurrentOutcomes : Respond(i, o)

SpecConcurrent == Init /\ [][ConcurrentNext]_vars

(***************************************************************************)
(* Properties.                                                             *)
(***************************************************************************)
\* whether string part occurs in string whole
Contains(whole, part) ==
    \E i \in 0..(Len(whole) - Len(part)) :
        \A j \in 1..Len(part) : whole[i + j] = part[j]

\* whether the token tok occurs in string whole
HasToken(whole, tok) == \E i \in 1..Len(whole) : whole[i] = tok

CredentialsPresent(a) == a.tag = "object"

PrivatePrimitives ==
    {"getFromPrivateEndpoint", "postToPrivateEndpoint", "deleteFromPrivateEndpoint"}

QueryPrimitives ==
    {"getPublicEndpoint", "getFromPrivateEndpoint", "deleteFromPrivateEndpoint"}

\* the calls that handed a request to axios
WasDispatched(c) == c.req # NoRequest

\* C1: a call of a private primitive made while the agent holds no
\* credentials rejects with the "api keys are required" reason, and has
\* called neither signMessage nor axios.
C1_UnauthenticatedRejectsBeforeTransport ==
    \A i \in 1..Len(calls) :
        LET c == calls[i]
        IN (c.op \in PrivatePrimitives /\ ~CredentialsPresent(c.authAtCall))
           => /\ c.state = "rejected"
              /\ c.result = UnauthenticatedReason
              /\ c.nSign = 0
              /\ c.nTransport = 0
              /\ ~WasDispatched(c)

\* a private primitive, called directly with arguments on an agent without
\* credentials, has rejected
C1_Witness ==
    \E i \in 1..Len(calls) :
        /\ calls[i].via = "rawAgent"
        /\ calls[i].op = "postToPrivateEndpoint"
        /\ calls[i].arg = OrderBody
        /\ calls[i].authAtCall = Undefined
        /\ calls[i].state = "rejected"

\* a step of rawAgent.upgrade or client.upgrade
UpgradeStep == \E x \in UpgradeArgs : Upgrade(x) \/ ClientUpgrade(x)

\* C2: there is no way back from Upgraded to Public-only: once isUpgraded()
\* tells that credentials are held, it does so after every later step, a
\* step upgrade(x) for any x of UpgradeArgs included.
C2_NoReverseTransition ==
    [][Truthy(isUpgraded(auth)) => Truthy(isUpgraded(auth'))]_vars

\* the key, the passphrase and the secret of a dispatched private request
\* all come from the one credentials value a
FieldsFrom(c, a) ==
    /\ c.req.headers["CB-ACCESS-KEY"] = a.publicKey
    /\ c.req.headers["CB-ACCESS-PASSPHRASE"] = a.passphrase
    /\ c.req.headers["CB-ACCESS-SIGN"].key = Base64Decode(a.privateKey)

\* C3: after upgrade(newCredentials) returns, isUpgraded() holds, and every
\* private request started afterwards takes key, passphrase and secret
\* from the credentials that the last upgrade installed.
C3_UpgradeReplacesAtomically ==
    /\ [][UpgradeStep => Truthy(isUpgraded(auth'))]_vars
    /\ [](\A i \in 1..Len(calls) :
            (calls[i].op \in PrivatePrimitives /\ WasDispatched(calls[i]))
            => FieldsFrom(calls[i], calls[i].authAtCall))

\* C4: a step that changes the credentials is a step of upgrade: no call
\* of a primitive, of a client method, of isUpgraded or of signMessage,
\* and no settling of a call, changes them.
C4_OnlyUpgradeChangesCredentials ==
    [][auth' # auth => UpgradeStep]_vars

\* a client method has thrown on an upgraded client, and the credentials
\* are the ones the call found
C4_Witness ==
    /\ CredentialsPresent(auth)
    /\ \E i \in 1..Len(calls) :
          /\ calls[i].via = "listOrders"
          /\ calls[i].op = "none"
          /\ calls[i].state = "rejected"
          /\ calls[i].authAtCall = auth

\* C5: isUpgraded() returns true exactly when credentials are held, and
\* client.isUpgraded() returns what rawAgent.isUpgraded() returns.
C5_IsUpgradedIffCredentials ==
    /\ (isUpgraded(auth) = JSBool(TRUE)) <=> CredentialsPresent(auth)
    /\ clientIsUpgraded(auth) = isUpgraded(auth)

\* C6: the CB-ACCESS-TIMESTAMP header of a dispatched private request is
\* the timestamp at the head of the prehash that its CB-ACCESS-SIGN digest
\* was computed from, and the call made one signMessage call.
C6_TimestampHeaderIsSignedTimestamp ==
    \A i \in 1..Len(calls) :
        LET c == calls[i]
        IN (c.op \in PrivatePrimitives /\ WasDispatched(c))
           => /\ c.nSign = 1
              /\ SubSeq(c.req.headers["CB-ACCESS-SIGN"].msg, 1, 1)
                    = NumberToString(c.req.headers["CB-ACCESS-TIMESTAMP"])

\* a private request was signed and sent when the clock was not at a whole
\* second
C6_Witness ==
    \E i \in 1..Len(calls) :
        /\ calls[i].op = "deleteFromPrivateEndpoint"
        /\ WasDispatched(calls[i])
        /\ calls[i].req.headers["CB-ACCESS-TIMESTAMP"] % 1000 # 0

\* the message that a request's CB-ACCESS-SIGN digest was computed from
SignedMessage(c) == c.req.headers["CB-ACCESS-SIGN"].msg

\* the timestamp of a request, as the text at the head of its prehash
TimestampText(c) == NumberToString(c.req.headers["CB-ACCESS-TIMESTAMP"])

\* C7: GET signs timestamp, "GET" and the path and DELETE signs timestamp,
\* "DELETE" and the path, with no body segment whatever the query
\* parameters; POST signs timestamp, "POST", the path and the JSON text of
\* the body that it sends as the payload (nothing when there is no body),
\* and its path has no query string.
C7_PerVerbSigning ==
    \A i \in 1..Len(calls) :
        LET c == calls[i]
        IN WasDispatched(c) =>
           /\ c.op = "getFromPrivateEndpoint" =>
                 /\ SignedMessage(c) = TimestampText(c) \o <<"GET">> \o c.req.url
                 /\ c.req.method = <<"GET">>
           /\ c.op = "deleteFromPrivateEndpoint" =>
                 /\ SignedMessage(c) = TimestampText(c) \o <<"DELETE">> \o c.req.url
                 /\ c.req.method = <<"DELETE">>
           /\ c.op = "postToPrivateEndpoint" =>
                 /\ c.req.method = <<"POST">>
                 /\ c.req.data = c.arg
                 /\ c.req.url = <<"/">> \o c.endpoint
                 /\ ~HasToken(c.req.url, "?")
                 /\ SignedMessage(c)
                       = TimestampText(c) \o <<"POST">> \o c.req.url
                         \o (IF c.req.data = Undefined THEN << >>
                             ELSE JsonStringify(c.req.data))

\* a GET with query parameters was signed and sent
C7_Witness ==
    \E i \in 1..Len(calls) :
        /\ calls[i].op = "getFromPrivateEndpoint"
        /\ calls[i].arg = Limit2
        /\ WasDispatched(calls[i])

\* the upper-case form of the method names given to signMessage
UpperCased(method) ==
    CASE method = <<"get">> -> <<"GET">>
      [] method = <<"POST">> -> <<"POST">>
      [] method = <<"delete">> -> <<"DELETE">>

\* C8: the prehash of signMessage is the timestamp, the upper-cased
\* method, the path, and the JSON text of the body only if a body is given;
\* with the other arguments equal, no body and the empty mapping give
\* different prehashes.
C8_PrehashConstruction ==
    ret.op = "signMessage" =>
        LET path == ret.args[2]
            method == ret.args[3]
            body == ret.args[4]
            ts == ret.value.timestamp
            base == NumberToString(ts) \o UpperCased(method) \o path
        IN /\ body = Undefined => ret.value.digest.msg = base
           /\ body # Undefined =>
                 ret.value.digest.msg = base \o JsonStringify(body)
           /\ Prehash(ts, path, method, Undefined) = base
           /\ Prehash(ts, path, method, EmptyObj) = base \o <<"{", "}">>
           /\ Prehash(ts, path, method, Undefined) # Prehash(ts, path, method, EmptyObj)

\* signMessage was called with the empty mapping as its body
C8_Witness ==
    /\ ret.op = "signMessage"
    /\ ret.args[3] = <<"get">>
    /\ ret.args[4] = EmptyObj

\* C9 as claimed: a call of getPublicEndpoint, getFromPrivateEndpoint or
\* deleteFromPrivateEndpoint without query parameters dispatches exactly
\* "/" + endpoint, with nothing appended.
C9_BarePathWithoutQuery ==
    \A i \in 1..Len(calls) :
        LET c == calls[i]
        IN (c.op \in QueryPrimitives /\ WasDispatched(c) /\ c.arg = Undefined)
           => c.req.url = <<"/">> \o c.endpoint

\* C9 as amended: the path of these three primitives is "/" + endpoint +
\* "?" + the query string, the "?" always there: without query parameters
\* (none given, or an empty mapping) it is "/" + endpoint + "?", and with
\* them the query string follows the "?".  A private call signs the path
\* it dispatches.
C9_PathAlwaysHasQuestionMark ==
    \A i \in 1..Len(calls) :
        LET c == calls[i]
            stem == <<"/">> \o c.endpoint \o <<"?">>
        IN (c.op \in QueryPrimitives /\ WasDispatched(c)) =>
           /\ Len(c.req.url) >= Len(stem)
           /\ SubSeq(c.req.url, 1, Len(stem)) = stem
           /\ (c.arg = Undefined \/ c.arg = EmptyObj) => c.req.url = stem
           /\ (c.arg # Undefined /\ c.arg # EmptyObj) =>
                 /\ Len(c.req.url) > Len(stem)
                 /\ SubSeq(c.req.url, Len(stem) + 1, Len(c.req.url))
                       = QsStringify(c.arg)
           /\ c.op \in PrivatePrimitives =>
                 SubSeq(SignedMessage(c), 3, Len(SignedMessage(c))) = c.req.url

\* a private GET without query parameters was signed and sent
C9_Witness ==
    \E i \in 1..Len(calls) :
        /\ calls[i].via = "rawAgent"
        /\ calls[i].op = "getFromPrivateEndpoint"
        /\ calls[i].arg = Undefined
        /\ WasDispatched(calls[i])

\* the number of tokens tok in string whole
Occurrences(whole, tok) == Cardinality({i \in 1..Len(whole) : whole[i] = tok})

\* the repeated-key form of a status array: status=s1&status=s2&...
RepeatedKeys(items) ==
    Join([i \in 1..Len(items) |-> <<"status", "=">> \o items[i]], <<"&">>)

\* C10: a request of listOrders or listFunding called with a status array
\* has in its url status=s1&...&status=sn in the array's order, one status
\* key per element, and no bracket, plain or escaped.
C10_RepeatedStatusKeys ==
    \A i \in 1..Len(calls) :
        LET c == calls[i]
        IN (/\ c.via \in {"listOrders", "listFunding"}
            /\ WasDispatched(c)
            /\ c.args[1].tag = "object"
            /\ c.args[1].status.tag = "array")
           => /\ Contains(c.req.url, RepeatedKeys(c.args[1].status.items))
              /\ Occurrences(c.req.url, "status") = Len(c.args[1].status.items)
              /\ \A b \in {"[", "]", "%5B", "%5D"} : ~HasToken(c.req.url, b)

\* listOrders was called with two statuses and a product on an upgraded
\* client, and its request sent
C10_Witness ==
    \E i \in 1..Len(calls) :
        /\ calls[i].via = "listOrders"
        /\ WasDispatched(calls[i])
        /\ calls[i].args[1].tag = "object"
        /\ calls[i].args[1].status = Array(<< <<"open">>, <<"pending">> >>)
        /\ calls[i].args[1].product_id = JSString(<<"BTC-USD">>)

\* the four authentication headers
AuthHeaders ==
    {"CB-ACCESS-KEY", "CB-ACCESS-PASSPHRASE", "CB-ACCESS-SIGN", "CB-ACCESS-TIMESTAMP"}

\* the headers of publicAgentConfig and privateAgentConfig
StandardHeaders == {"Content-Type", "User-Agent"}

\* C11: a request dispatched by getPublicEndpoint has the standard headers
\* and none of the four authentication headers, whatever credentials the
\* agent holds; a request dispatched by a private primitive has all four
\* beside the standard ones.
C11_AuthHeadersOnlyOnPrivate ==
    \A i \in 1..Len(calls) :
        LET c == calls[i]
        IN WasDispatched(c) =>
           /\ c.op = "getPublicEndpoint" =>
                 DOMAIN c.req.headers = StandardHeaders
           /\ c.op \in PrivatePrimitives =>
                 DOMAIN c.req.headers = StandardHeaders \cup AuthHeaders

\* a public request was sent by an agent that holds credentials
C11_Witness ==
    \E i \in 1..Len(calls) :
        /\ calls[i].op = "getPublicEndpoint"
        /\ WasDispatched(calls[i])
        /\ calls[i].authAtCall = CredA

\* whether axios has settled the request of call c, and with a failure
TransportFailed(c) == c.outcome # NoOutcome /\ ~c.outcome.ok

\* the most specific reason that a transport error err offers: the
\* response body's error field, else the response body, else the response,
\* else err itself
MostSpecificReason(err) ==
    IF err.response.tag = "object"
    THEN IF err.response.data.tag = "object" /\ Truthy(err.response.data.error)
         THEN err.response.data.error
         ELSE IF Truthy(err.response.data) THEN err.response.data
         ELSE err.response
    ELSE err

\* C12: a call whose transport failed has rejected with the most specific
\* reason the error offers, in the order error field, response body,
\* response, raw error; with no response at all, with the raw error.
C12_RejectionPriority ==
    \A i \in 1..Len(calls) :
        LET c == calls[i]
        IN TransportFailed(c) =>
           /\ c.state = "rejected"
           /\ c.result = MostSpecificReason(c.outcome.value)

\* the characters of the model that are not of the base64 alphabet
OutsideBase64 == {"!", " ", "*"}

\* a secret that is not a base64 text
Malformed(s) == \E i \in 1..Len(s) : s[i] \in OutsideBase64

\* the secret without the characters outside the alphabet
WithoutOutside(s) == SelectSeq(s, LAMBDA tok : tok \notin OutsideBase64)

InvalidCredentialFormat == [tag |-> "object", name |-> "InvalidCredentialFormat"]

\* the private calls made with credentials whose secret is malformed
SignedWithMalformed(c) ==
    /\ c.op \in PrivatePrimitives
    /\ CredentialsPresent(c.authAtCall)
    /\ Malformed(c.authAtCall.privateKey)

\* C13 as claimed: signMessage fails with InvalidCredentialFormat when the
\* secret is not base64, and a private call made with such a secret has
\* rejected without a request given to the transport.
C13_MalformedSecretFails ==
    /\ (ret.op = "signMessage" /\ Malformed(ret.args[1]))
          => ret.value = InvalidCredentialFormat
    /\ \A i \in 1..Len(calls) :
          SignedWithMalformed(calls[i])
          => /\ calls[i].state = "rejected"
             /\ ~WasDispatched(calls[i])
             /\ calls[i].nTransport = 0

\* C13 as amended: signMessage does not fail on a secret that is not
\* base64: the decoder leaves out the characters outside the alphabet, and
\* signMessage returns a digest keyed with the rest and its timestamp; a
\* private call made with such a secret is signed with that key and given
\* to the transport.
C13_MalformedSecretIsSigned ==
    /\ (ret.op = "signMessage" /\ Malformed(ret.args[1]))
          => /\ DOMAIN ret.value = {"digest", "timestamp"}
             /\ ret.value.digest.key = [bytes |-> WithoutOutside(ret.args[1])]
    /\ \A i \in 1..Len(calls) :
          SignedWithMalformed(calls[i])
          => /\ WasDispatched(calls[i])
             /\ calls[i].nSign = 1
             /\ calls[i].nTransport = 1
             /\ calls[i].req.headers["CB-ACCESS-SIGN"].key
                   = [bytes |-> WithoutOutside(calls[i].authAtCall.privateKey)]

\* a private request was signed with a malformed secret and sent
C13_Witness ==
    \E i \in 1..Len(calls) :
        /\ SignedWithMalformed(calls[i])
        /\ calls[i].op = "postToPrivateEndpoint"
        /\ calls[i].arg = OrderBody
        /\ WasDispatched(calls[i])

\* C14: a call invokes the transport at most once; when the invocation
\* fails the call has rejected, and when it succeeds the call has resolved
\* with the very response the transport gave; a call is settled only by
\* its one invocation's outcome or without any invocation.
C14_NoRetryNoSwallow ==
    \A i \in 1..Len(calls) :
        LET c == calls[i]
        IN /\ c.nTransport <= 1
           /\ c.nTransport = 1 <=> WasDispatched(c)
           /\ c.state = "pending" <=> (WasDispatched(c) /\ c.outcome = NoOutcome)
           /\ TransportFailed(c) => c.state = "rejected"
           /\ (c.outcome # NoOutcome /\ c.outcome.ok)
                 => /\ c.state = "resolved"
                    /\ c.result = c.outcome.value
           /\ c.state = "resolved" => (c.outcome # NoOutcome /\ c.outcome.ok)

\* a private request failed with a structured error and the call rejected
\* with it after its single invocation
C14_Witness ==
    \E i \in 1..Len(calls) :
        /\ calls[i].op = "deleteFromPrivateEndpoint"
        /\ TransportFailed(calls[i])
        /\ calls[i].nTransport = 1
        /\ calls[i].state = "rejected"
        /\ calls[i].result = JSString(<<"Unauthorized">>)

\* the primitive that each client method is documented to call
PrimitiveOf(m) ==
    CASE m \in {"getProducts", "getProductOrderBook", "getProductTicker",
                "getTrades", "getHistoricRates", "get24HrStats",
                "getCurrencies", "getServerTime"} -> "getPublicEndpoint"
      [] m \in {"placeNewOrder", "repay", "transferMarginFunds", "closePosition",
                "depositFromPaymentMethod", "depositFromCoinbaseAccount",
                "withdrawToPaymentMethod", "withdrawToCoinbaseAccount",
                "withdrawToCryptoAddress", "createReport"} -> "postToPrivateEndpoint"
      [] m \in {"cancelOrder", "cancelAll"} -> "deleteFromPrivateEndpoint"
      [] OTHER -> "getFromPrivateEndpoint"

\* the resource at the head of each client method's path template
ResourceOf(m) ==
    CASE m \in {"getProducts", "getProductOrderBook", "getProductTicker",
                "getTrades", "getHistoricRates", "get24HrStats"} -> "products"
      [] m = "getCurrencies" -> "currencies"
      [] m = "getServerTime" -> "time"
      [] m \in {"listAccounts", "getAccount", "getAccountHistory", "getHolds"} -> "accounts"
      [] m \in {"placeNewOrder", "cancelOrder", "cancelAll", "listOrders",
                "getOrder"} -> "orders"
      [] m = "listFills" -> "fills"
      [] m \in {"listFunding", "repay"} -> "funding"
      [] m = "transferMarginFunds" -> "profiles"
      [] m \in {"getPosition", "closePosition"} -> "position"
      [] m \in {"depositFromPaymentMethod", "depositFromCoinbaseAccount"} -> "deposits"
      [] m \in {"withdrawToPaymentMethod", "withdrawToCoinbaseAccount",
                "withdrawToCryptoAddress"} -> "withdrawals"
      [] m = "listPaymentMethods" -> "payment-methods"
      [] m = "listCoinbaseAccounts" -> "coinbase-accounts"
      [] m \in {"createReport", "getReportStatus"} -> "reports"
      [] m = "getTrailingVolume" -> "users"

\* C15: a call of a client method, whatever arguments of its signature it
\* was given (none of the optional ones too), is one call of the method's
\* one primitive on the method's path.
C15_OnePrimitiveCallPerMethod ==
    \A i \in 1..Len(calls) :
        LET c == calls[i]
        IN c.via \in ClientMethods =>
           /\ c.op = PrimitiveOf(c.via)
           /\ c.endpoint # << >>
           /\ Head(c.endpoint) = ResourceOf(c.via)

\* C16: with requests outstanding while the agent is upgraded, the key,
\* the passphrase and the signing secret of every dispatched private
\* request are those of the one credentials value held when the request
\* was started, and a step of upgrade changes no request already
\* dispatched: not its headers, not its signature.
C16_InFlightKeepsItsCredentials ==
    /\ [](\A i \in 1..Len(calls) :
            WasDispatched(calls[i])
            => /\ CredentialsPresent(calls[i].authAtCall)
               /\ FieldsFrom(calls[i], calls[i].authAtCall))
    /\ [][UpgradeStep => calls' = calls]_vars

\* two requests are in flight, the first started with the credentials that
\* an upgrade has since replaced, the second with the new ones
C16_Witness ==
    /\ Len(calls) >= 2
    /\ calls[1].state = "pending"
    /\ calls[2].state = "pending"
    /\ calls[1].authAtCall = CredA
    /\ calls[2].authAtCall = CredB
    /\ auth = CredB

\* the HTTP method that each private primitive is to send
VerbOf(op) ==
    CASE op = "getFromPrivateEndpoint" -> <<"GET">>
      [] op = "postToPrivateEndpoint" -> <<"POST">>
      [] op = "deleteFromPrivateEndpoint" -> <<"DELETE">>

\* C17: in the message signed for a dispatched private request, the
\* method is the HTTP method of the request and the path is the request's
\* url, token for token, the query string that a client method put into
\* the endpoint included; nothing but the body's JSON text follows it.
C17_SignedPathIsDispatchedUrl ==
    \A i \in 1..Len(calls) :
        LET c == calls[i]
            msg == SignedMessage(c)
            url == c.req.url
        IN (c.op \in PrivatePrimitives /\ WasDispatched(c)) =>
           /\ c.req.method = VerbOf(c.op)
           /\ Len(msg) >= 2 + Len(url)
           /\ SubSeq(msg, 2, 2) = c.req.method
           /\ SubSeq(msg, 3, 2 + Len(url)) = url
           /\ c.req.data = Undefined => Len(msg) = 2 + Len(url)
           /\ url = <<"/">> \o c.endpoint
                    \o (IF c.op = "postToPrivateEndpoint" THEN << >>
                        ELSE <<"?">> \o QsStringify(c.arg))

\* listOrders put a query string of statuses into the endpoint, and the
\* request was signed and sent
C17_Witness ==
    \E i \in 1..Len(calls) :
        /\ calls[i].via = "listOrders"
        /\ WasDispatched(calls[i])
        /\ Contains(calls[i].endpoint, <<"?", "status", "=", "open">>)
        /\ Occurrences(calls[i].req.url, "?") = 2

\* the path of a url: what comes before the first "?"
PathOf(url) ==
    LET marks == {i \in 1..Len(url) : url[i] = "?"}
    IN IF marks = {} THEN url
       ELSE SubSeq(url, 1, (CHOOSE i \in marks : \A j \in marks : i <= j) - 1)

\* the verb and the path that a dispatched call was sent to
RouteOf(c) == <<c.req.method, PathOf(c.req.url)>>

\* the routes of method m on the agent of call c, over the arguments that
\* the model gives m (the same identifier in every path template)
RoutesOf(m, c) ==
    {RouteOf(ClientCall(m, c.authAtCall, p[1], p[2], now).call) :
        p \in {q \in ClientArgs(m) :
                  WasDispatched(ClientCall(m, c.authAtCall, q[1], q[2], now).call)}}

\* C18: no two different client methods dispatch to the same verb and
\* path: the route of a dispatched call of one method is a route of no
\* other method.
C18_DistinctRoutes ==
    \A i \in 1..Len(calls) :
        LET c == calls[i]
        IN (c.via \in ClientMethods /\ WasDispatched(c)) =>
           \A m \in ClientMethods \ {c.via} : RouteOf(c) \notin RoutesOf(m, c)

====
